---------------------------- MODULE Spec2Model ----------------------------
(***************************************************************************)
(* A model of the page cache (src/src/pager.rs), the B-tree page header    *)
(* and lookup loop (src/src/btree.rs) and the varint codec                 *)
(* (src/src/varint.rs).                                                    *)
(*                                                                         *)
(* The pager keeps a papaya::HashMap<PageId, PageLock>.  Both get_lock and *)
(* try_gc go through HashMap::compute, which is a compare-and-swap loop:   *)
(* it loads the current entry of the key, runs the closure on it, and, for *)
(* Operation::Insert / Operation::Remove, installs the result only if the  *)
(* entry is still the one that was loaded; otherwise it runs the closure   *)
(* again on the entry that is there now.  Operation::Abort returns at once.*)
(* The closures of pager.rs have side effects on the refcount of the entry *)
(* they are given, so every atomic operation is a step of its own here.    *)
(***************************************************************************)
EXTENDS Integers, Sequences, FiniteSets, TLC

VARIABLES
    map,              \* Pager.map: page id -> the PageLock of its entry, 0 = none
    locks,            \* the PageLock objects, by address
    pc,               \* position of each thread
    id,               \* the page id of the thread's current call
    mode,             \* "read" (read_page) or "write" (write_page)
    kv,               \* the entry compute handed to the closure, 0 = None
    lock,             \* the &RwLock get_lock returned, as an address, 0 = none
    budget            \* read_page / write_page budget the threads may still make

pagerVars == <<map, locks, pc, id, mode, kv, lock, budget>>

VARIABLES
    page_size,        \* Pager.page_size
    file,             \* the bytes of the backing file
    cursor,           \* the position of the open File
    buf,              \* the caller's buffer
    io                \* the read_into / write call: its position and outcome

ioVars == <<page_size, file, cursor, buf, io>>

VARIABLES
    start_page,       \* BTree.start_page
    key,              \* the key find is called with
    page_id,          \* find: the page of the current iteration
    header,           \* the result of PageHeader::parse
    find_pc,          \* position of find
    find_result       \* what find returned

findVars == <<start_page, key, page_id, header, find_pc, find_result>>

VARIABLES
    value,            \* the u64 of a varint, as the set of its one bits
    trail,            \* bytes that follow the encoding in the decoder's input
    encoded,          \* the result of encode_varint
    decoded           \* the result of decode_varint

varintVars == <<value, trail, encoded, decoded>>

VARIABLES
    val,              \* the Value write_to_buf is called on
    dest,             \* buf: &mut Vec<u8> before the call of write_to_buf
    wrote,            \* how write_to_buf ended, and the Vec after it
    input,            \* buf: &[u8] of read_from_buf
    typ,              \* typ: Type of read_from_buf
    got               \* how read_from_buf ended, and what it returned

valueVars == <<val, dest, wrote, input, typ, got>>

otherVars == <<ioVars, findVars, varintVars, valueVars>>

vars == <<pagerVars, ioVars, findVars, varintVars, valueVars>>

-----------------------------------------------------------------------------
(* Bounds *)

\* calls of read_page / write_page in a run
MaxCalls == 2
\* isize is modelled IsizeBits wide; the sentinel and the saturation point
\* are the two ends of its range.
IsizeBits == 4

\* the page size of the pager whose file access is modelled, in bytes
PageSize == 1
\* pages of the backing file at the start, and the bytes the device holds
FilePages == 1
\* the byte values of file contents and buffers
Bytes == {0, 1}
\* bytes of a buffer after the page header
MaxExtra == 1
\* bytes after an encoded varint
MaxTrail == 2
\* bytes of a Bytes or String value
MaxPayload == 2

\* the longest buffer decode_varint is given: one byte more than it may read
MaxBuf == 11

Threads == 1 .. 3
PageIds == 0 .. 1
Modes == {"read", "write"}

\* A PageLock is referenced by the map (one per page id) or by a thread (the
\* entry its closure is looking at, the lock it was handed): this many
\* addresses are enough.
NumThreads == Cardinality(Threads)
NumPages == Cardinality(PageIds)
Addrs == 1 .. (NumPages + 2 * NumThreads)

\* the device has room for one page more than the file holds at the start
MaxFileLen == (FilePages + 1) * PageSize

ISIZE_MAX == 2 ^ (IsizeBits - 1) - 1
ISIZE_MIN == 0 - 2 ^ (IsizeBits - 1)

\* Two's-complement wrap of an isize result (arithmetic without overflow
\* checks).
WrapIsize(n) ==
    LET m == 2 ^ IsizeBits
        r == ((n - ISIZE_MIN) % m)
    IN  r + ISIZE_MIN

-----------------------------------------------------------------------------
(* PageLock { refcount: AtomicIsize, lock: RwLock<()> } *)

\* memory that holds no PageLock
\* (swaps is history: how often compare_exchange(0, isize::MIN) succeeded on it)
Free ==
    [key |-> 0, refcount |-> 0, readers |-> {}, writer |-> 0, poisoned |-> FALSE,
     swaps |-> 0]

\* PageLock { refcount: AtomicIsize::new(1), lock: RwLock::new(()) }
NewPageLock(p) ==
    [key |-> p, refcount |-> 1, readers |-> {}, writer |-> 0, poisoned |-> FALSE,
     swaps |-> 0]

\* RwLock::read / RwLock::write can take the lock
CanLock(l, m) ==
    IF m = "read" THEN l.writer = 0
    ELSE l.writer = 0 /\ l.readers = {}

Locked(l, t, m) ==
    IF m = "read" THEN [l EXCEPT !.readers = @ \cup {t}]
    ELSE [l EXCEPT !.writer = t]

\* Dropping RwLockReadGuard / RwLockWriteGuard; a write guard dropped while
\* its thread is panicking poisons the lock.
Unlocked(l, t, m, panicking) ==
    IF m = "read" THEN [l EXCEPT !.readers = @ \ {t}]
    ELSE [l EXCEPT !.writer = 0, !.poisoned = @ \/ panicking]

-----------------------------------------------------------------------------
(* The PageLock objects.  papaya retires an entry that left the map and     *)
(* frees it once no guard can still reach it: a PageLock that neither the   *)
(* map nor a thread refers to is gone.  Addresses carry no meaning, so the  *)
(* live objects are kept at the addresses 1, 2, ... in the order in which   *)
(* the map and the threads refer to them.                                   *)

\* every reference to a PageLock, in a fixed order: the map's, then each
\* thread's kv, then each thread's lock
Refs(m, k, l) ==
    [i \in 1 .. (NumPages + 2 * NumThreads) |->
        IF i <= NumPages THEN m[i - 1]
        ELSE IF i <= NumPages + NumThreads THEN k[i - NumPages]
        ELSE l[i - NumPages - NumThreads]]

Referenced(a, m, k, l) ==
    \/ \E p \in PageIds : m[p] = a
    \/ \E t \in Threads : k[t] = a \/ l[t] = a

\* the allocation of a new PageLock
Alloc == CHOOSE a \in Addrs : ~Referenced(a, map, kv, lock)

\* the distinct objects of refs, in the order of their first reference
\* (the arguments are bound to their values before they are used)
RECURSIVE Distinct(_, _)
Distinct(refs, acc) ==
    CHOOSE result \in
        { IF r = << >> THEN a
          ELSE Distinct(Tail(r),
                        IF Head(r) = 0 \/ \E i \in DOMAIN a : a[i] = Head(r)
                        THEN a ELSE Append(a, Head(r)))
          : r \in {refs}, a \in {acc} } : TRUE

\* The next map, objects and references of the threads.
Commit(m, ls, k, l) ==
    \E from \in {Distinct(Refs(m, k, l), << >>)} :
        LET to(a) == IF a = 0 THEN 0 ELSE CHOOSE r \in DOMAIN from : from[r] = a
        IN  /\ map' = [p \in PageIds |-> to(m[p])]
            /\ kv' = [t \in Threads |-> to(k[t])]
            /\ lock' = [t \in Threads |-> to(l[t])]
            /\ locks' = [r \in Addrs |-> IF r \in DOMAIN from THEN ls[from[r]] ELSE Free]

-----------------------------------------------------------------------------
(* Pager::new *)

\* a result that has not been computed yet
Pending == [pending |-> TRUE]

\* no lookup is under way
FindIdle ==
    /\ start_page = 0
    /\ key = 0
    /\ page_id = 0
    /\ header = Pending
    /\ find_pc = "idle"
    /\ find_result = Pending

\* no Value is being written or read
ValueIdle ==
    /\ val = Pending
    /\ dest = << >>
    /\ wrote = Pending
    /\ input = << >>
    /\ typ = "none"
    /\ got = Pending

\* no varint is being converted
VarintIdle ==
    /\ value = {}
    /\ trail = << >>
    /\ encoded = Pending
    /\ decoded = Pending

\* no file access is under way
IoIdle ==
    /\ page_size = 0
    /\ file = << >>
    /\ cursor = 0
    /\ buf = << >>
    /\ io = [pc |-> "idle", op |-> "none", id |-> 0, seek |-> "none",
             transfer |-> "none", result |-> "none"]

PagerInit ==
    /\ map = [p \in PageIds |-> 0]
    /\ locks = [a \in Addrs |-> Free]
    /\ pc = [t \in Threads |-> "idle"]
    /\ id = [t \in Threads |-> 0]
    /\ mode = [t \in Threads |-> "read"]
    /\ kv = [t \in Threads |-> 0]
    /\ lock = [t \in Threads |-> 0]

-----------------------------------------------------------------------------
(* Pager::get_lock: self.map.compute(id, closure, guard) *)

\* all page ids share one entry
KeyShared(p) == 0

\* the map is keyed by the page id
Key(p) == p

\* compute loads the entry of id and runs the closure on it.  On None the
\* closure returns Operation::Insert without touching shared state.
get_lock(t, p, m) ==
    /\ pc[t] = "idle"
    /\ id' = [id EXCEPT ![t] = p]
    /\ mode' = [mode EXCEPT ![t] = m]
    /\ pc' = [pc EXCEPT ![t] =
                 IF map[Key(p)] = 0 THEN "gl_insert" ELSE "gl_fetch_update"]
    /\ kv' = [kv EXCEPT ![t] = map[Key(p)]]
    /\ UNCHANGED <<map, locks, lock>>

(* Pager::read_page / Pager::write_page begin with get_lock *)

read_page(t, p) ==
    /\ budget > 0
    /\ budget' = budget - 1
    /\ get_lock(t, p, "read")
    /\ UNCHANGED otherVars

write_page(t, p) ==
    /\ budget > 0
    /\ budget' = budget - 1
    /\ get_lock(t, p, "write")
    /\ UNCHANGED otherVars

\* The closure's Some branch: refcount.fetch_update(Relaxed, Relaxed, ..)
\* adds one unless the count is isize::MAX, and yields the count it saw.
IncrementedCount(count) == IF count = ISIZE_MAX THEN count ELSE count + 1

get_lock_fetch_update(t) ==
    /\ pc[t] = "gl_fetch_update"
    /\ LET e == kv[t]
           refcount == locks[e].refcount
           ls == [locks EXCEPT ![e].refcount = IncrementedCount(refcount)]
       IN  IF refcount < 0
           THEN \* Operation::Insert(PageLock { 1, .. })
                /\ pc' = [pc EXCEPT ![t] = "gl_insert"]
                /\ locks' = ls
                /\ UNCHANGED <<map, kv, lock>>
           ELSE \* Operation::Abort(lock): compute returns Compute::Aborted
                /\ pc' = [pc EXCEPT ![t] = "gl_lock"]
                /\ Commit(map, ls, [kv EXCEPT ![t] = 0], [lock EXCEPT ![t] = e])
    /\ UNCHANGED <<id, mode, budget>>
    /\ UNCHANGED otherVars

\* compute installs the Insert if the entry is still the one the closure
\* saw (Compute::Inserted / Compute::Updated) ...
get_lock_insert(t) ==
    /\ pc[t] = "gl_insert"
    /\ map[Key(id[t])] = kv[t]
    /\ LET a == Alloc
       IN  Commit([map EXCEPT ![Key(id[t])] = a],
                  [locks EXCEPT ![a] = NewPageLock(id[t])],
                  [kv EXCEPT ![t] = 0],
                  [lock EXCEPT ![t] = a])
    /\ pc' = [pc EXCEPT ![t] = "gl_lock"]
    /\ UNCHANGED <<id, mode, budget>>
    /\ UNCHANGED otherVars

\* ... and otherwise runs the closure again, on the entry that is there now.
get_lock_retry(t) ==
    /\ pc[t] = "gl_insert"
    /\ map[Key(id[t])] # kv[t]
    /\ pc' = [pc EXCEPT ![t] =
                 IF map[Key(id[t])] = 0 THEN "gl_insert" ELSE "gl_fetch_update"]
    /\ Commit(map, locks, [kv EXCEPT ![t] = map[Key(id[t])]], lock)
    /\ UNCHANGED <<id, mode, budget>>
    /\ UNCHANGED otherVars

\* A panic unwinds the thread: its locals are dropped, and with them the
\* rw_guard of the guard being dropped, if there is one.
Panic(t, ls) ==
    /\ pc' = [pc EXCEPT ![t] = "panicked"]
    /\ id' = [id EXCEPT ![t] = 0]
    /\ mode' = [mode EXCEPT ![t] = "read"]
    /\ Commit(map, ls, [kv EXCEPT ![t] = 0], [lock EXCEPT ![t] = 0])
    /\ UNCHANGED budget
    /\ UNCHANGED otherVars

\* lock.read().expect(..) / lock.write().expect(..): the guard is returned,
\* or expect("Shouldn't be poisoned") panics on a poisoned lock
lock_acquire(t) ==
    /\ pc[t] = "gl_lock"
    /\ CanLock(locks[lock[t]], mode[t])
    /\ IF locks[lock[t]].poisoned
       THEN Panic(t, locks)
       ELSE /\ locks' = [locks EXCEPT ![lock[t]] = Locked(@, t, mode[t])]
            /\ pc' = [pc EXCEPT ![t] = "held"]
            /\ UNCHANGED <<map, id, mode, kv, lock, budget>>
            /\ UNCHANGED otherVars

-----------------------------------------------------------------------------
(* Drop for PageRead / PageWrite: try_gc, then the rw_guard field drops *)

\* try_gc: pager.map.compute(id, closure, map_guard) loads the entry
try_gc(t) ==
    /\ pc[t] = "held"
    /\ map[Key(id[t])] # 0
    /\ pc' = [pc EXCEPT ![t] = "gc_fetch_update"]
    /\ kv' = [kv EXCEPT ![t] = map[Key(id[t])]]
    /\ UNCHANGED <<map, locks, lock, id, mode, budget>>
    /\ UNCHANGED otherVars

\* None => unreachable!(..)
try_gc_unreachable(t) ==
    /\ pc[t] = "held"
    /\ map[Key(id[t])] = 0
    /\ Panic(t, [locks EXCEPT ![lock[t]] = Unlocked(@, t, mode[t], TRUE)])

\* refcount.fetch_update(Release, Relaxed, ..): subtract one unless the
\* count is isize::MAX.
DecrementedCount(count) == IF count = ISIZE_MAX THEN count ELSE WrapIsize(count - 1)

try_gc_fetch_update(t) ==
    /\ pc[t] = "gc_fetch_update"
    /\ LET e == kv[t]
           refcount == locks[e].refcount
           ls == [locks EXCEPT ![e].refcount = DecrementedCount(refcount)]
       IN  IF refcount = 1
           THEN /\ pc' = [pc EXCEPT ![t] = "gc_compare_exchange"]
                /\ locks' = ls
                /\ UNCHANGED <<map, kv, lock>>
           ELSE \* Operation::Abort(())
                /\ pc' = [pc EXCEPT ![t] = "gc_unlock"]
                /\ Commit(map, ls, [kv EXCEPT ![t] = 0], lock)
    /\ UNCHANGED <<id, mode, budget>>
    /\ UNCHANGED otherVars

\* `count - 1` on isize::MIN panics in a build with overflow checks (and
\* wraps, as above, in one without).
try_gc_overflow(t) ==
    /\ pc[t] = "gc_fetch_update"
    /\ locks[kv[t]].refcount = ISIZE_MIN
    /\ Panic(t, [locks EXCEPT ![lock[t]] = Unlocked(@, t, mode[t], TRUE)])

\* the exchange is never made
CompareExchangeNever(count) == FALSE

\* the exchange is made whatever the count is
CompareExchangeAlways(count) == TRUE

\* compare_exchange(0, ..) is Ok when the count is 0
CompareExchangeOk(count) == count = 0

\* refcount.compare_exchange(0, isize::MIN, Acquire, Relaxed)
try_gc_compare_exchange(t) ==
    /\ pc[t] = "gc_compare_exchange"
    /\ LET e == kv[t]
       IN  IF CompareExchangeOk(locks[e].refcount)
           THEN \* Operation::Remove
                /\ pc' = [pc EXCEPT ![t] = "gc_remove"]
                /\ locks' = [locks EXCEPT ![e].refcount = ISIZE_MIN,
                                          ![e].swaps = @ + 1]
                /\ UNCHANGED <<map, kv, lock>>
           ELSE \* Operation::Abort(())
                /\ pc' = [pc EXCEPT ![t] = "gc_unlock"]
                /\ Commit(map, locks, [kv EXCEPT ![t] = 0], lock)
    /\ UNCHANGED <<id, mode, budget>>
    /\ UNCHANGED otherVars

\* Operation::Remove: compute removes the entry if it is still the one the
\* closure saw ...
try_gc_remove(t) ==
    /\ pc[t] = "gc_remove"
    /\ map[Key(id[t])] = kv[t]
    /\ pc' = [pc EXCEPT ![t] = "gc_unlock"]
    /\ Commit([map EXCEPT ![Key(id[t])] = 0], locks, [kv EXCEPT ![t] = 0], lock)
    /\ UNCHANGED <<id, mode, budget>>
    /\ UNCHANGED otherVars

\* ... and otherwise runs the closure again, on the entry that is there now.
try_gc_retry(t) ==
    /\ pc[t] = "gc_remove"
    /\ map[Key(id[t])] # kv[t]
    /\ map[Key(id[t])] # 0
    /\ pc' = [pc EXCEPT ![t] = "gc_fetch_update"]
    /\ Commit(map, locks, [kv EXCEPT ![t] = map[Key(id[t])]], lock)
    /\ UNCHANGED <<id, mode, budget>>
    /\ UNCHANGED otherVars

\* the closure runs again and finds None => unreachable!(..)
try_gc_retry_unreachable(t) ==
    /\ pc[t] = "gc_remove"
    /\ map[Key(id[t])] # kv[t]
    /\ map[Key(id[t])] = 0
    /\ Panic(t, [locks EXCEPT ![lock[t]] = Unlocked(@, t, mode[t], TRUE)])

\* after Drop::drop the rw_guard field is dropped: the RwLock is released
drop_rw_guard(t) ==
    /\ pc[t] = "gc_unlock"
    /\ pc' = [pc EXCEPT ![t] = "idle"]
    /\ id' = [id EXCEPT ![t] = 0]
    /\ mode' = [mode EXCEPT ![t] = "read"]
    /\ Commit(map, [locks EXCEPT ![lock[t]] = Unlocked(@, t, mode[t], FALSE)],
              [kv EXCEPT ![t] = 0], [lock EXCEPT ![t] = 0])
    /\ UNCHANGED budget
    /\ UNCHANGED otherVars

-----------------------------------------------------------------------------

PagerNext ==
    \E t \in Threads :
        \/ \E p \in PageIds : read_page(t, p)
        \/ \E p \in PageIds : write_page(t, p)
        \/ get_lock_fetch_update(t)
        \/ get_lock_insert(t)
        \/ get_lock_retry(t)
        \/ lock_acquire(t)
        \/ try_gc(t)
        \/ try_gc_unreachable(t)
        \/ try_gc_fetch_update(t)
        \/ try_gc_overflow(t)
        \/ try_gc_compare_exchange(t)
        \/ try_gc_remove(t)
        \/ try_gc_retry(t)
        \/ try_gc_retry_unreachable(t)
        \/ drop_rw_guard(t)

-----------------------------------------------------------------------------
(* PageRead::read_into, PageWrite::read_into, PageWrite::write              *)

\* only a buffer longer than a page is turned away
SizeMismatchLonger(len, size) == len > size

\* buf.len() != self.pager.page_size as usize
SizeMismatch(len, size) == len # size

\* The three methods begin alike: the length check, which returns
\* Err(ErrorKind::Unsupported) at once, and otherwise the seek.
io_call(op, i, b) ==
    /\ io.pc = "idle"
    /\ buf' = b
    /\ io' = IF SizeMismatch(Len(b), page_size)
             THEN [pc |-> "idle", op |-> op, id |-> i, seek |-> "none",
                   transfer |-> "none", result |-> "Unsupported"]
             ELSE [pc |-> "seek", op |-> op, id |-> i, seek |-> "none",
                   transfer |-> "none", result |-> "none"]
    /\ UNCHANGED <<page_size, file, cursor>>

PageRead_read_into(i, b) == io_call("PageRead::read_into", i, b) /\ UNCHANGED <<pagerVars, findVars, varintVars, valueVars>>

PageWrite_read_into(i, b) == io_call("PageWrite::read_into", i, b) /\ UNCHANGED <<pagerVars, findVars, varintVars, valueVars>>

PageWrite_write(i, b) == io_call("PageWrite::write", i, b) /\ UNCHANGED <<pagerVars, findVars, varintVars, valueVars>>

\* file.seek(SeekFrom::Start(page_size as u64 * id)); the Result of the
\* seek is dropped, the method goes on whether it is Ok or Err.
seek(ok) ==
    /\ io.pc = "seek"
    /\ cursor' = IF ok THEN page_size * io.id ELSE cursor
    /\ io' = [io EXCEPT !.pc = "transfer", !.seek = IF ok THEN "Ok" ELSE "Err"]
    /\ UNCHANGED <<page_size, file, buf>>
    /\ UNCHANGED <<pagerVars, findVars, varintVars, valueVars>>

IsRead(op) == op \in {"PageRead::read_into", "PageWrite::read_into"}

\* file.read_exact(buf) fills the buffer from the position of the file
read_exact ==
    /\ io.pc = "transfer"
    /\ IsRead(io.op)
    /\ cursor + Len(buf) <= Len(file)
    /\ buf' = SubSeq(file, cursor + 1, cursor + Len(buf))
    /\ cursor' = cursor + Len(buf)
    /\ io' = [io EXCEPT !.pc = "idle", !.transfer = "Ok", !.result = "Ok"]
    /\ UNCHANGED <<page_size, file>>
    /\ UNCHANGED <<pagerVars, findVars, varintVars, valueVars>>

\* ... or meets the end of the file first: what is there is read, and the
\* call returns Err(UnexpectedEof)
read_exact_eof ==
    /\ io.pc = "transfer"
    /\ IsRead(io.op)
    /\ cursor + Len(buf) > Len(file)
    /\ LET n == IF cursor >= Len(file) THEN 0 ELSE Len(file) - cursor
       IN  /\ buf' = [j \in DOMAIN buf |-> IF j <= n THEN file[cursor + j] ELSE buf[j]]
           /\ cursor' = cursor + n
    /\ io' = [io EXCEPT !.pc = "idle", !.transfer = "Err", !.result = "UnexpectedEof"]
    /\ UNCHANGED <<page_size, file>>
    /\ UNCHANGED <<pagerVars, findVars, varintVars, valueVars>>

\* file.write_all(buf) writes the buffer at the position of the file; a
\* write past the end extends the file (the gap reads as zeros), as long as
\* the device has room
write_all ==
    /\ io.pc = "transfer"
    /\ io.op = "PageWrite::write"
    /\ cursor + Len(buf) <= MaxFileLen
    /\ file' = [j \in 1 .. (IF cursor + Len(buf) > Len(file)
                             THEN cursor + Len(buf) ELSE Len(file)) |->
                   IF j > cursor /\ j <= cursor + Len(buf) THEN buf[j - cursor]
                   ELSE IF j <= Len(file) THEN file[j] ELSE 0]
    /\ cursor' = cursor + Len(buf)
    /\ io' = [io EXCEPT !.pc = "idle", !.transfer = "Ok", !.result = "Ok"]
    /\ UNCHANGED <<page_size, buf>>
    /\ UNCHANGED <<pagerVars, findVars, varintVars, valueVars>>

\* the read or the write itself fails (an I/O error of the device; for a
\* write also a full device): nothing is transferred
transfer_error ==
    /\ io.pc = "transfer"
    /\ io' = [io EXCEPT !.pc = "idle", !.transfer = "Err", !.result = "IoError"]
    /\ UNCHANGED <<page_size, file, cursor, buf>>
    /\ UNCHANGED <<pagerVars, findVars, varintVars, valueVars>>

\* A pager of pages of PageSize bytes over a file of FilePages pages
IoInit ==
    /\ page_size = PageSize
    /\ file \in [1 .. (FilePages * PageSize) -> Bytes]
    /\ cursor = 0
    /\ buf = << >>
    /\ io = [pc |-> "idle", op |-> "none", id |-> 0, seek |-> "none",
             transfer |-> "none", result |-> "none"]
    /\ PagerInit /\ budget = 0
    /\ FindIdle /\ VarintIdle /\ ValueIdle

\* the buffers a caller passes: of the page size, shorter (if there is a
\* shorter one) and longer
Buffers ==
    UNION {[1 .. n -> Bytes] : n \in {k \in (PageSize - 1) .. (PageSize + 1) : k >= 0}}

IoNext ==
    \/ \E i \in PageIds, b \in Buffers : PageRead_read_into(i, b)
    \/ \E i \in PageIds, b \in Buffers : PageWrite_read_into(i, b)
    \/ \E i \in PageIds, b \in Buffers : PageWrite_write(i, b)
    \/ \E ok \in BOOLEAN : seek(ok)
    \/ read_exact
    \/ read_exact_eof
    \/ write_all
    \/ transfer_error

IoSpec == IoInit /\ [][IoNext]_vars

-----------------------------------------------------------------------------
(* ReadableSlice(&[u8], usize) and its impl Read *)

Min(a, b) == IF a <= b THEN a ELSE b

\* the bytes one call of read copies: &self.0[..amt], the first amt bytes
\* of the slice
CopiedBytes(slice, pos, amt) == SubSeq(slice, 1, amt)

\* read(&mut self, buf) for a buf of n bytes: the number of bytes read,
\* those bytes, and the position afterwards
ReadableSlice_read(slice, pos, n) ==
    IF pos >= Len(slice)
    THEN [amt |-> 0, bytes |-> << >>, pos |-> pos]
    ELSE LET available == Len(slice) - pos
             amt == Min(available, n)
         IN  [amt |-> amt, bytes |-> CopiedBytes(slice, pos, amt), pos |-> pos + amt]

\* Read::read_exact (the default method): read until n bytes are there; a
\* read of 0 bytes is Err(UnexpectedEof)
RECURSIVE read_exact_slice(_, _, _, _)
read_exact_slice(slice, pos, n, acc) ==
    IF n = 0 THEN [ok |-> TRUE, bytes |-> acc, pos |-> pos]
    ELSE LET r == ReadableSlice_read(slice, pos, n)
         IN  IF r.amt = 0
             THEN [ok |-> FALSE, bytes |-> acc, pos |-> pos]
             ELSE read_exact_slice(slice, r.pos, n - r.amt, acc \o r.bytes)

\* ReadBytesExt::read_u8
read_u8(slice, pos) ==
    LET r == read_exact_slice(slice, pos, 1, << >>)
    IN  [ok |-> r.ok, n |-> IF r.ok THEN r.bytes[1] ELSE 0, pos |-> r.pos]

\* ReadBytesExt::read_u16::<LittleEndian>
read_u16(slice, pos) ==
    LET r == read_exact_slice(slice, pos, 2, << >>)
    IN  [ok |-> r.ok, n |-> IF r.ok THEN r.bytes[1] + 256 * r.bytes[2] ELSE 0,
         pos |-> r.pos]

(* PageType::parse *)

PageTypes == <<"InteriorIndex", "InteriorTable", "LeafIndex", "LeafTable">>

PageType_parse(n) ==
    IF n \in 0 .. 3 THEN [ok |-> TRUE, page_type |-> PageTypes[n + 1]]
    ELSE [ok |-> FALSE, page_type |-> "Invalid table kind"]

(* PageHeader::parse *)

PageHeader_parse(bytes) ==
    LET t == read_u8(bytes, 0)
        page_type == PageType_parse(t.n)
        freeblock_start == read_u16(bytes, t.pos)
        cell_count == read_u16(bytes, freeblock_start.pos)
        cell_content_start == read_u16(bytes, cell_count.pos)
        total_free_bytes == read_u16(bytes, cell_content_start.pos)
    IN  IF ~t.ok THEN [ok |-> FALSE, err |-> "UnexpectedEof"]
        ELSE IF ~page_type.ok THEN [ok |-> FALSE, err |-> "Invalid table kind"]
        ELSE IF ~(freeblock_start.ok /\ cell_count.ok /\ cell_content_start.ok
                    /\ total_free_bytes.ok)
        THEN [ok |-> FALSE, err |-> "UnexpectedEof"]
        ELSE [ok |-> TRUE,
              page_type |-> page_type.page_type,
              freeblock_start |-> freeblock_start.n,
              cell_count |-> cell_count.n,
              cell_content_start |-> cell_content_start.n,
              total_free_bytes |-> total_free_bytes.n]

\* the bytes of a page header: the type byte and four u16
HeaderLen == 1 + 2 + 2 + 2 + 2

\* the buffers parse is applied to: a byte short of a header, a header, and
\* a header with bytes after it; the first byte is a page type or not one
ParseBuffers ==
    {<<t>> \o b : t \in 0 .. 4,
                  b \in UNION {[1 .. n -> Bytes] :
                                  n \in (HeaderLen - 2) .. (HeaderLen - 1 + MaxExtra)}}

\* PageHeader::parse on each of these buffers
ParsedHeaders == [b \in ParseBuffers |-> PageHeader_parse(b)]

ParseInit ==
    /\ buf \in ParseBuffers
    /\ header = Pending
    /\ page_size = 0 /\ file = << >> /\ cursor = 0
    /\ io = [pc |-> "idle", op |-> "none", id |-> 0, seek |-> "none",
             transfer |-> "none", result |-> "none"]
    /\ start_page = 0 /\ key = 0 /\ page_id = 0
    /\ find_pc = "idle" /\ find_result = Pending
    /\ PagerInit /\ budget = 0
    /\ VarintIdle /\ ValueIdle

parse ==
    /\ header = Pending
    /\ header' = ParsedHeaders[buf]
    /\ UNCHANGED <<start_page, key, page_id, find_pc, find_result>>
    /\ UNCHANGED <<pagerVars, ioVars, varintVars, valueVars>>

ParseNext == parse

ParseSpec == ParseInit /\ [][ParseNext]_vars

-----------------------------------------------------------------------------
(* varint(u64): a u64 is the set of the positions of its one bits *)

U64Bits == 64

\* n as u64, for a byte n
BitsOf(n) == {b \in 0 .. 7 : (n \div (2 ^ b)) % 2 = 1}

\* the low byte of value, masked: value as u8 & mask
RECURSIVE SumBits(_)
SumBits(bits) ==
    IF bits = {} THEN 0
    ELSE LET b == CHOOSE x \in bits : TRUE
         IN  2 ^ b + SumBits(bits \ {b})

LowByte(v, mask) == SumBits({b \in v : b < 8 /\ b \in BitsOf(mask)})

\* value >>= 7
Shr7(v) == {b - 7 : b \in {x \in v : x >= 7}}

\* bits << k, in 64 bits
Shl(bits, k) == {b + k : b \in bits} \cap (0 .. (U64Bits - 1))

\* value > 0x80
Above0x80(v) == \E b \in v : b > 7 \/ (b = 7 /\ v # {7})

\* value >= 0x80
AtLeast0x80(v) == \E b \in v : b >= 7

(* varint::encode_varint *)

RECURSIVE encode_loop(_, _, _)
encode_loop(v, index, buffer) ==
    IF AtLeast0x80(v)
    THEN encode_loop(Shr7(v), index + 1,
                     [buffer EXCEPT ![index + 1] = LowByte(v, 127) + 128])
    ELSE [buf |-> [buffer EXCEPT ![index + 1] = LowByte(v, 255)], len |-> index + 1]

encode_varint(v) == encode_loop(v, 0, [i \in 1 .. 10 |-> 0])

(* varint::decode_varint *)

\* a loop that reads on until a byte without the continuation bit
RECURSIVE decode_loop_unbounded(_, _, _)
decode_loop_unbounded(bytes, i, result) ==
    IF i >= Len(bytes) THEN [some |-> FALSE, value |-> {}, len |-> 0]
    ELSE LET byte == bytes[i + 1]
             r == result \cup Shl(BitsOf(byte) \ {7}, 7 * i)
         IN  IF 7 \notin BitsOf(byte)
             THEN [some |-> TRUE, value |-> r, len |-> i + 1]
             ELSE decode_loop_unbounded(bytes, i + 1, r)

RECURSIVE decode_loop(_, _, _)
decode_loop(bytes, i, result) ==
    IF i >= 10 THEN [some |-> FALSE, value |-> {}, len |-> 0]
    ELSE IF i >= Len(bytes) THEN [some |-> FALSE, value |-> {}, len |-> 0]
    ELSE LET byte == bytes[i + 1]
             r == result \cup Shl(BitsOf(byte) \ {7}, 7 * i)
         IN  IF 7 \notin BitsOf(byte)
             THEN [some |-> TRUE, value |-> r, len |-> i + 1]
             ELSE decode_loop(bytes, i + 1, r)

decode_varint(bytes) == decode_loop(bytes, 0, {})

\* the values converted: every u64 whose one bits are among these, the
\* ends of the 7-bit groups of the low and of the high bytes
VarintBits == {0, 6, 7, 13, 14, 55, 56, 62, 63}
TrailBytes == {0, 128, 255}

VarintInit ==
    /\ value \in SUBSET VarintBits
    /\ trail \in UNION {[1 .. n -> TrailBytes] : n \in 0 .. MaxTrail}
    /\ encoded = Pending
    /\ decoded = Pending
    /\ PagerInit /\ budget = 0
    /\ IoIdle /\ FindIdle /\ ValueIdle

encode ==
    /\ encoded = Pending
    /\ encoded' = encode_varint(value)
    /\ UNCHANGED <<value, trail, decoded>>
    /\ UNCHANGED <<pagerVars, ioVars, findVars, valueVars>>

\* decode_varint on buf[..len] followed by the trailing bytes
decode ==
    /\ encoded # Pending
    /\ decoded = Pending
    /\ decoded' = decode_varint(SubSeq(encoded.buf, 1, encoded.len) \o trail)
    /\ UNCHANGED <<value, trail, encoded>>
    /\ UNCHANGED <<pagerVars, ioVars, findVars, valueVars>>

VarintNext == encode \/ decode

VarintSpec == VarintInit /\ [][VarintNext]_vars

\* decode_varint on the bytes of any buffer: the greatest byte without the
\* continuation bit and the least byte with it, up to MaxBuf of them
DecodeBytes == {127, 128}
DecodeBuffers == UNION {[1 .. n -> DecodeBytes] : n \in 0 .. MaxBuf}

DecodeInit ==
    /\ value = {}
    /\ trail = << >>
    /\ encoded \in {[buf |-> b, len |-> Len(b)] : b \in DecodeBuffers}
    /\ decoded = Pending
    /\ PagerInit /\ budget = 0
    /\ IoIdle /\ FindIdle /\ ValueIdle

DecodeNext == decode

DecodeSpec == DecodeInit /\ [][DecodeNext]_vars

-----------------------------------------------------------------------------
(* BTree::find *)

\* find runs in one thread of the pager
FindThread == 1

\* the pages of a tree file: a page header, whose first byte is a page type
\* or not one and whose freeblock_start is 0 or 1, and zeros after it
FindPageSize == HeaderLen + MaxExtra

TreePages == {<<t, c>> \o [j \in 1 .. (FindPageSize - 2) |-> 0] : t \in 0 .. 4, c \in Bytes}

\* files of one page and of two
TreeFiles == TreePages \cup {a \o b : a \in TreePages, b \in TreePages}

FindInit ==
    /\ page_size = FindPageSize
    /\ file \in TreeFiles
    /\ cursor = 0
    /\ buf = << >>
    /\ io = [pc |-> "idle", op |-> "none", id |-> 0, seek |-> "none",
             transfer |-> "none", result |-> "none"]
    /\ start_page \in PageIds
    /\ key \in Bytes
    /\ page_id = 0
    /\ header = Pending
    /\ find_pc = "call"
    /\ find_result = Pending
    /\ PagerInit /\ budget = 0
    /\ VarintIdle /\ ValueIdle

\* let mut page_id = self.start_page; get_guard; the buffer of page_size
\* zeros; self.pager.open_file()?, which returns the error of File::open
find_open_file(ok) ==
    /\ find_pc = "call"
    /\ page_id' = start_page
    /\ IF ok
       THEN /\ buf' = [j \in 1 .. page_size |-> 0]
            /\ find_pc' = "loop"
            /\ UNCHANGED find_result
       ELSE /\ find_result' = [ok |-> FALSE, err |-> "IoError"]
            /\ find_pc' = "returned"
            /\ UNCHANGED buf
    /\ UNCHANGED <<page_size, file, cursor, io, start_page, key, header>>
    /\ UNCHANGED <<pagerVars, varintVars, valueVars>>

\* loop { let read = self.pager.read_page(page_id, &guard);
find_read_page ==
    /\ find_pc = "loop"
    /\ get_lock(FindThread, page_id, "read")
    /\ find_pc' = "read_page"
    /\ UNCHANGED <<start_page, key, page_id, header, find_result>>
    /\ UNCHANGED <<budget, ioVars, varintVars, valueVars>>

\* read.read_into(&mut buf, &mut file)
find_read_into ==
    /\ find_pc = "read_page"
    /\ pc[FindThread] = "held"
    /\ io_call("PageRead::read_into", page_id, buf)
    /\ find_pc' = "read_into"
    /\ UNCHANGED <<start_page, key, page_id, header, find_result>>
    /\ UNCHANGED <<pagerVars, varintVars, valueVars>>

\* the ? after read_into: an Err is returned from find
find_read_into_result ==
    /\ find_pc = "read_into"
    /\ io.pc = "idle"
    /\ IF io.result = "Ok"
       THEN /\ find_pc' = "parse"
            /\ UNCHANGED find_result
       ELSE /\ find_result' = [ok |-> FALSE, err |-> io.result]
            /\ find_pc' = "drop_return"
    /\ UNCHANGED <<start_page, key, page_id, header>>
    /\ UNCHANGED <<pagerVars, ioVars, varintVars, valueVars>>

\* let header = PageHeader::parse(&buf)?; and the end of the loop body,
\* which has no break and no return and leaves page_id as it is
find_parse ==
    /\ find_pc = "parse"
    /\ \E parsed \in {ParsedHeaders[buf]} :
           /\ header' = parsed
           /\ IF parsed.ok
              THEN /\ find_pc' = "drop_loop"
                   /\ UNCHANGED find_result
              ELSE /\ find_result' = [ok |-> FALSE, err |-> parsed.err]
                   /\ find_pc' = "drop_return"
    /\ UNCHANGED <<start_page, key, page_id>>
    /\ UNCHANGED <<pagerVars, ioVars, varintVars, valueVars>>

\* header and read go out of scope: the drop of read is try_gc and the
\* unlock, below; then the next iteration
find_loop ==
    /\ find_pc = "drop_loop"
    /\ pc[FindThread] = "idle"
    /\ find_pc' = "loop"
    /\ header' = Pending
    /\ UNCHANGED <<start_page, key, page_id, find_result>>
    /\ UNCHANGED <<pagerVars, ioVars, varintVars, valueVars>>

\* ... or, after a ?, the return of the error
find_return ==
    /\ find_pc = "drop_return"
    /\ pc[FindThread] = "idle"
    /\ find_pc' = "returned"
    /\ UNCHANGED <<start_page, key, page_id, header, find_result>>
    /\ UNCHANGED <<pagerVars, ioVars, varintVars, valueVars>>

\* find is the only thread: the steps of get_lock and of try_gc that meet
\* another thread's change of the entry do not occur
FindNext ==
    \/ \E ok \in BOOLEAN : find_open_file(ok)
    \/ find_read_page
    \/ get_lock_insert(FindThread)
    \/ lock_acquire(FindThread)
    \/ find_read_into
    \/ \E ok \in BOOLEAN : seek(ok)
    \/ read_exact
    \/ read_exact_eof
    \/ transfer_error
    \/ find_read_into_result
    \/ find_parse
    \/ find_pc \in {"drop_loop", "drop_return"} /\ try_gc(FindThread)
    \/ try_gc_fetch_update(FindThread)
    \/ try_gc_compare_exchange(FindThread)
    \/ try_gc_remove(FindThread)
    \/ drop_rw_guard(FindThread)
    \/ find_loop
    \/ find_return

FindSpec == FindInit /\ [][FindNext]_vars

\* the thread that runs find is scheduled: find takes its next step
FindFairSpec == FindInit /\ [][FindNext]_vars /\ WF_vars(FindNext)

-----------------------------------------------------------------------------
(* impl BtreeKey for Value: write_to_buf and read_from_buf.  A scalar is   *)
(* the set of the positions of the one bits of its bit pattern.            *)

Types == {"Blob", "String", "U64", "U32", "I64", "I32", "F32", "F64"}

\* the bytes of a scalar of each Type
ScalarBytes(t) == IF t \in {"U32", "I32", "F32"} THEN 4 ELSE 8

Scalar(tag, bits) == [tag |-> tag, bits |-> bits, bytes |-> << >>]
Inline(tag, bytes) == [tag |-> tag, bits |-> {}, bytes |-> bytes]

\* n.to_le_bytes() of a scalar of k bytes
to_le_bytes(bits, k) ==
    [i \in 1 .. k |->
        SumBits({b - 8 * (i - 1) : b \in {x \in bits : x \div 8 = i - 1}})]

\* u64::from_le_bytes and the like
from_le_bytes(bytes) ==
    UNION {Shl(BitsOf(bytes[i]), 8 * (i - 1)) : i \in 1 .. Len(bytes)}

\* bytes.len() as u64
LenAsU64(n) == {b \in 0 .. 30 : (n \div (2 ^ b)) % 2 = 1}

\* [T]::copy_from_slice: the two slices must be of one length, or it panics
copy_from_slice(dst, src) ==
    IF Len(dst) = Len(src) THEN [outcome |-> "returned", buf |-> src]
    ELSE [outcome |-> "panic", buf |-> dst]

\* the Bytes and String arms: the length is copied into buf, and then the
\* bytes are copied into buf
write_inline(bytes, buffer) ==
    LET len == to_le_bytes(LenAsU64(Len(bytes)), 8)
        first == copy_from_slice(buffer, len)
    IN  IF first.outcome = "panic" THEN first
        ELSE copy_from_slice(first.buf, bytes)

(* write_to_buf(&self, buf: &mut Vec<u8>) *)
write_to_buf(v, buffer) ==
    IF v.tag \in {"Bytes", "OwnedBytes", "String", "OwnedString"}
    THEN write_inline(v.bytes, buffer)
    ELSE IF v.tag \in {"OverflowedBytes", "OverflowedString"}
    THEN [outcome |-> "panic", buf |-> buffer]
    ELSE copy_from_slice(buffer, to_le_bytes(v.bits, ScalarBytes(v.tag)))

\* str::from_utf8, for the bytes of the model: ASCII bytes, and 0xFF, which
\* no UTF-8 text holds
from_utf8_ok(bytes) == \A i \in 1 .. Len(bytes) : bytes[i] < 128

\* &buf[8..8 + len] is in range; a len of 2^16 or more is beyond every
\* buffer here (and 8 + len, should it wrap, is less than 8)
InRange(len, buffer) ==
    /\ \A b \in len : b < 16
    /\ 8 + SumBits(len) <= Len(buffer)

NoValue == [tag |-> "none", bits |-> {}, bytes |-> << >>]

Panicked == [outcome |-> "panic", value |-> NoValue, consumed |-> 0]

\* the Blob and String arms
read_inline(buffer, t) ==
    IF Len(buffer) < 8 THEN Panicked
    ELSE LET len == from_le_bytes(SubSeq(buffer, 1, 8))
         IN  IF ~InRange(len, buffer) THEN Panicked
             ELSE LET blob == SubSeq(buffer, 9, 8 + SumBits(len))
                  IN  IF t = "Blob"
                      THEN [outcome |-> "returned", value |-> Inline("Bytes", blob),
                            consumed |-> SumBits(len) + 8]
                      ELSE IF ~from_utf8_ok(blob) THEN Panicked
                      ELSE [outcome |-> "returned", value |-> Inline("String", blob),
                            consumed |-> SumBits(len) + 8]

(* read_from_buf(buf: &[u8], typ: Type) -> (Value, usize) *)
read_from_buf(buffer, t) ==
    IF t \in {"Blob", "String"} THEN read_inline(buffer, t)
    ELSE IF Len(buffer) < ScalarBytes(t) THEN Panicked
    ELSE [outcome |-> "returned",
          value |-> Scalar(t, from_le_bytes(SubSeq(buffer, 1, ScalarBytes(t)))),
          consumed |-> ScalarBytes(t)]

\* the Type a Value is read back with
TypeOf(v) ==
    IF v.tag \in {"Bytes", "OwnedBytes", "OverflowedBytes"} THEN "Blob"
    ELSE IF v.tag \in {"String", "OwnedString", "OverflowedString"} THEN "String"
    ELSE v.tag

\* the bytes of Bytes and String values: ASCII, and 0xFF
PayloadBytes == {0, 65, 255}

\* Bytes and String values of up to MaxPayload bytes, and of 8 bytes
Payloads ==
    UNION {[1 .. n -> PayloadBytes] : n \in 0 .. MaxPayload}
        \cup {[i \in 1 .. 8 |-> b] : b \in PayloadBytes}

\* bit patterns: the ends of the bytes, and the sign bits
Bits32 == SUBSET {0, 8, 31}
Bits64 == SUBSET {0, 8, 31, 32, 63}

Values ==
    {Scalar(t, bits) : t \in {"U32", "I32", "F32"}, bits \in Bits32}
        \cup {Scalar(t, bits) : t \in {"U64", "I64", "F64"}, bits \in Bits64}
        \cup {Inline(t, p) : t \in {"Bytes", "OwnedBytes"}, p \in Payloads}
        \cup {Inline(t, p) : t \in {"String", "OwnedString"},
                             p \in {q \in Payloads : from_utf8_ok(q)}}
        \cup {Scalar(t, {0}) : t \in {"OverflowedBytes", "OverflowedString"}}

\* the bytes the encoding of a value has: the scalar, or the length and the
\* bytes
EncodedLen(v) ==
    IF v.tag \in {"Bytes", "OwnedBytes", "String", "OwnedString"} THEN 8 + Len(v.bytes)
    ELSE ScalarBytes(TypeOf(v))

\* a Value, and a Vec of zeros for it: empty, or of 4 or 8 bytes, or of the
\* length of the encoding
ValueInit ==
    /\ val \in Values
    /\ dest \in {[i \in 1 .. n |-> 0] : n \in {0, 4, 8, EncodedLen(val)}}
    /\ wrote = Pending
    /\ input = << >>
    /\ typ = TypeOf(val)
    /\ got = Pending
    /\ PagerInit /\ budget = 0
    /\ IoIdle /\ FindIdle /\ VarintIdle

value_write_to_buf ==
    /\ wrote = Pending
    /\ wrote' = write_to_buf(val, dest)
    /\ input' = wrote'.buf
    /\ UNCHANGED <<val, dest, typ, got>>
    /\ UNCHANGED <<pagerVars, ioVars, findVars, varintVars>>

\* read_from_buf on what write_to_buf left in the Vec
value_read_from_buf ==
    /\ wrote # Pending
    /\ wrote.outcome = "returned"
    /\ got = Pending
    /\ got' = read_from_buf(input, typ)
    /\ UNCHANGED <<val, dest, wrote, input, typ>>
    /\ UNCHANGED <<pagerVars, ioVars, findVars, varintVars>>

ValueNext == value_write_to_buf \/ value_read_from_buf

ValueSpec == ValueInit /\ [][ValueNext]_vars

\* the buffers read_from_buf is called on: a length of 0 .. MaxPayload + 1
\* or of 2^56 and a payload, and the first bytes of these
Prefixed ==
    {to_le_bytes(len, 8) \o p :
        len \in {LenAsU64(n) : n \in 0 .. (MaxPayload + 1)} \cup {{56}},
        p \in UNION {[1 .. n -> PayloadBytes] : n \in 0 .. MaxPayload}}

ReadInputs == Prefixed \cup {SubSeq(b, 1, n) : b \in Prefixed, n \in {0, 3, 7}}

ReadInit ==
    /\ val = Pending
    /\ dest = << >>
    /\ wrote = Pending
    /\ input \in ReadInputs
    /\ typ \in Types
    /\ got = Pending
    /\ PagerInit /\ budget = 0
    /\ IoIdle /\ FindIdle /\ VarintIdle

read ==
    /\ got = Pending
    /\ got' = read_from_buf(input, typ)
    /\ UNCHANGED <<val, dest, wrote, input, typ>>
    /\ UNCHANGED <<pagerVars, ioVars, findVars, varintVars>>

ReadNext == read

ReadSpec == ReadInit /\ [][ReadNext]_vars

-----------------------------------------------------------------------------

Init == PagerInit /\ budget = MaxCalls /\ IoIdle /\ FindIdle /\ VarintIdle /\ ValueIdle

\* the same threads, with one more call to make
InitLonger == PagerInit /\ budget = MaxCalls + 1 /\ IoIdle /\ FindIdle /\ VarintIdle /\ ValueIdle

Next == PagerNext

\* every caller works on the same page id
SamePageIds == {0}

\* the same threads once more, with two more calls to make
InitLongest ==
    PagerInit /\ budget = MaxCalls + 2 /\ IoIdle /\ FindIdle /\ VarintIdle /\ ValueIdle

\* what a thread does once it has called read_page or write_page, up to
\* and including the drop of the guard it got
Proceed(t) ==
    \/ get_lock_fetch_update(t)
    \/ get_lock_insert(t)
    \/ get_lock_retry(t)
    \/ lock_acquire(t)
    \/ try_gc(t)
    \/ try_gc_unreachable(t)
    \/ try_gc_fetch_update(t)
    \/ try_gc_overflow(t)
    \/ try_gc_compare_exchange(t)
    \/ try_gc_remove(t)
    \/ try_gc_retry(t)
    \/ try_gc_retry_unreachable(t)
    \/ drop_rw_guard(t)

\* fair scheduling: a thread that can take a step takes one, so that every
\* guard is dropped and every waiter that can have the lock gets it
\* one thread is the writer of the page, the others are its readers
Writers == {1}

WriterAndReadersNext ==
    \E t \in Threads :
        \/ \E p \in SamePageIds : t \notin Writers /\ read_page(t, p)
        \/ \E p \in SamePageIds : t \in Writers /\ write_page(t, p)
        \/ Proceed(t)

SamePageFairSpec ==
    InitLongest /\ [][WriterAndReadersNext]_vars /\ \A t \in Threads : WF_vars(Proceed(t))

Spec == Init /\ [][Next]_vars

SpecLonger == InitLonger /\ [][Next]_vars

-----------------------------------------------------------------------------
(* Properties of the page cache *)

\* a thread holds a guard from the return of read_page / write_page until
\* the drop of the guard begins
Holds(t) == pc[t] = "held"

\* C1: while a thread holds a PageWrite guard for a page id, no other
\* thread holds a PageRead or PageWrite guard for that page id.
C1_WriterExcludesOthers ==
    \A t, u \in Threads :
        (t # u /\ Holds(t) /\ mode[t] = "write" /\ Holds(u)) => id[u] # id[t]

\* C2: once every guard has been dropped (every thread is back from its
\* calls, none is in a call and none has panicked), the map holds no entry.
C2_MapEmptyWhenAllDropped ==
    (\A t \in Threads : pc[t] = "idle") => \A p \in PageIds : map[p] = 0

\* C3: while a thread holds a guard for a page id, the map has an entry for
\* that page id, and it is the PageLock whose RwLock the guard locked.
C3_HeldEntryStaysInMap ==
    \A t \in Threads : Holds(t) => (map[id[t]] # 0 /\ map[id[t]] = lock[t])

\* the threads that have locked the RwLock of a PageLock
LockHolders(l) == l.readers \cup (IF l.writer = 0 THEN {} ELSE {l.writer})

\* the threads whose guard for the page id of t has locked the RwLock that
\* t is about to lock
SamePageHolders(t) ==
    {u \in LockHolders(locks[lock[t]]) \ {t} : id[u] = id[t]}

\* C4: a call of read_page / write_page on a page id waits for nothing but
\* the guards held on that same page id: a thread that has got its PageLock
\* from the map and is at RwLock::read / RwLock::write (the steps on the
\* map before it are compare-and-swap loops, which never wait) can take
\* the lock whenever no guard for its own page id has it locked, whatever
\* guards are held on other page ids.
C4_OtherPagesNeverDelay ==
    \A t \in Threads :
        (pc[t] = "gl_lock" /\ SamePageHolders(t) = {})
            => CanLock(locks[lock[t]], mode[t])

\* a thread is at the RwLock of its page while another thread holds a write
\* guard on another page id, and no guard on its own
C4_Witness ==
    \E t, u \in Threads :
        /\ pc[t] = "gl_lock" /\ SamePageHolders(t) = {}
        /\ Holds(u) /\ mode[u] = "write" /\ id[u] # id[t]

-----------------------------------------------------------------------------
(* Properties of read_into / write *)

\* C7: a call of read_into / write with a buffer whose length is not the
\* page size returns the size error and makes no seek, no read and no
\* write: the step of the call leaves the contents and the position of the
\* file as they were, and the call is over at once, the buffer being the
\* one that was passed.
C7_SizeMismatchTouchesNothing ==
    /\ []((io.op # "none" /\ Len(buf) # page_size)
            => /\ io.pc = "idle"
               /\ io.result = "Unsupported"
               /\ io.seek = "none"
               /\ io.transfer = "none")
    /\ [][(io' # io /\ Len(buf') # page_size)
            => (file' = file /\ cursor' = cursor)]_vars

\* a write with a buffer one byte too long was turned away, after earlier
\* calls had moved the position of the file
C7_Witness ==
    /\ io.op = "PageWrite::write"
    /\ Len(buf) = page_size + 1
    /\ io.result = "Unsupported"
    /\ cursor > 0

\* C8: a call in which the seek, the read or the write failed returns an
\* error, and after a failed seek no read or write is made.
C8_IoErrorsAreReturned ==
    (io.pc = "idle" /\ (io.seek = "Err" \/ io.transfer = "Err"))
        => /\ io.result # "Ok"
           /\ (io.seek = "Err" => io.transfer = "none")


\* C9: PageHeader::parse of a buffer b of 9 bytes or more whose b[0] is in
\* 0..3 yields the page type of b[0] and, little-endian, freeblock_start
\* from b[1..3], cell_count from b[3..5], cell_content_start from b[5..7]
\* and total_free_bytes from b[7..9].
LittleEndian16(b, at) == b[at + 1] + 256 * b[at + 2]

C9_HeaderFieldsLittleEndian ==
    (header # Pending /\ Len(buf) >= HeaderLen /\ buf[1] \in 0 .. 3) =>
        /\ header.ok
        /\ header.page_type = PageTypes[buf[1] + 1]
        /\ header.freeblock_start = LittleEndian16(buf, 1)
        /\ header.cell_count = LittleEndian16(buf, 3)
        /\ header.cell_content_start = LittleEndian16(buf, 5)
        /\ header.total_free_bytes = LittleEndian16(buf, 7)

\* C10: for every u64 v, with (buf, len) the result of encode_varint,
\* decode_varint of buf[..len] followed by any trailing bytes is
\* Some((v, len)), and len is between 1 and 10.
C10_VarintRoundTrip ==
    decoded # Pending =>
        /\ decoded = [some |-> TRUE, value |-> value, len |-> encoded.len]
        /\ encoded.len \in 1 .. 10

\* a value of ten bytes decoded before trailing bytes that go on
C10_Witness ==
    /\ decoded # Pending
    /\ 63 \in value
    /\ encoded.len = 10
    /\ Len(trail) > 0
    /\ trail[1] = 255

\* C5: find returns the result of the reference lookup; at a leaf it
\* returns Ok(Some((page id, offset))) or Ok(None): once find has parsed
\* the header of a leaf page, it is returning an Ok.
IsLeaf(h) == h # Pending /\ h.ok /\ h.page_type \in {"LeafIndex", "LeafTable"}

C5_FindAnswersAtLeaf ==
    IsLeaf(header) =>
        /\ find_pc \in {"drop_return", "returned"}
        /\ find_result # Pending
        /\ find_result.ok

\* C6: every call of find eventually returns, for every content of the
\* backing file.
C6_FindReturns == <>(find_pc = "returned")


-----------------------------------------------------------------------------
(* Properties of write_to_buf / read_from_buf *)

IsInline(v) == v.tag \in {"Bytes", "OwnedBytes", "String", "OwnedString"}
IsScalar(v) == v.tag \in {"U64", "U32", "I64", "I32", "F32", "F64"}

\* the value read_from_buf returns for v: the borrowed Bytes / String
Borrowed(v) ==
    IF v.tag = "OwnedBytes" THEN Inline("Bytes", v.bytes)
    ELSE IF v.tag = "OwnedString" THEN Inline("String", v.bytes)
    ELSE v

\* the bytes the value is to be written as: the little-endian pattern of a
\* scalar, the 8-byte little-endian length and the raw bytes of Bytes / String
Written(v) ==
    IF IsInline(v) THEN to_le_bytes(LenAsU64(Len(v.bytes)), 8) \o v.bytes
    ELSE to_le_bytes(v.bits, ScalarBytes(v.tag))

\* C11: for every scalar and every inline Bytes or String value v,
\* write_to_buf(v) (here: into a Vec that has the length of the encoding)
\* produces the 4- or 8-byte little-endian pattern, or the 8-byte length and
\* the raw bytes, and read_from_buf of these bytes with the Type of v
\* returns (v, consumed), consumed being their total length.
C11_ValueRoundTrip ==
    (val # Pending /\ (IsScalar(val) \/ IsInline(val)) /\ Len(dest) = EncodedLen(val))
        => /\ wrote # Pending =>
                (wrote.outcome = "returned" /\ wrote.buf = Written(val))
           /\ got # Pending =>
                got = [outcome |-> "returned", value |-> Borrowed(val),
                       consumed |-> Len(Written(val))]

\* the declared length of a Blob / String buffer, and whether the bytes
\* after the prefix are as many
Declared(buffer) == from_le_bytes(SubSeq(buffer, 1, 8))

\* C12: read_from_buf reports bad input as an error value, without a panic
\* and without a value: for Type::String a DecodeError when the bytes are
\* not valid UTF-8, for Type::Blob / Type::String a TruncatedInput error
\* when the declared length is larger than the bytes after the 8-byte prefix.
C12_BadInputIsAnError ==
    (got # Pending /\ typ \in {"Blob", "String"} /\ Len(input) >= 8) =>
        /\ ~InRange(Declared(input), input) => got.outcome = "TruncatedInput"
        /\ (typ = "String" /\ InRange(Declared(input), input)
                /\ ~from_utf8_ok(SubSeq(input, 9, 8 + SumBits(Declared(input)))))
            => got.outcome = "DecodeError"


-----------------------------------------------------------------------------
(* Properties of the teardown of an entry *)

\* C13: when the drop of a guard runs try_gc for its page id, the map still
\* has an entry for that id: no step executes the None => unreachable!(..)
\* branch of the closure of try_gc, on its first run or on a rerun.
C13_UnreachableIsNeverRun ==
    [][\A t \in Threads : ~(try_gc_unreachable(t) \/ try_gc_retry_unreachable(t))]_vars


\* the entries of the map are the same PageLocks, with the same RwLock
SameEntries ==
    \A p \in PageIds :
        /\ (map[p] = 0) <=> (map'[p] = 0)
        /\ map[p] # 0 =>
              [locks'[map'[p]] EXCEPT !.refcount = 0] = [locks[map[p]] EXCEPT !.refcount = 0]

\* C14: for each PageLock at most one release makes the compare-and-swap of
\* its refcount from 0 to isize::MIN; an entry leaves the map only in the
\* removal by the release that made it; and a release that did not see the
\* count become zero, or whose compare-and-swap failed (it goes from the
\* closure straight to the unlock), leaves the map and its entries in place.
C14_UniqueRemover ==
    /\ [](\A a \in Addrs : locks[a].swaps <= 1)
    /\ [](\A t, u \in Threads :
            (t # u /\ pc[t] = "gc_remove" /\ pc[u] = "gc_remove") => kv[t] # kv[u])
    /\ [][\A p \in PageIds :
            (map[p] # 0 /\ map'[p] = 0) =>
                \E t \in Threads :
                    /\ try_gc_remove(t)
                    /\ Key(id[t]) = p
                    /\ locks[kv[t]].swaps = 1]_vars
    /\ [][\A t \in Threads :
            (pc[t] \in {"gc_fetch_update", "gc_compare_exchange"} /\ pc'[t] = "gc_unlock")
                => SameEntries]_vars

\* a release has made the compare-and-swap on the entry of its own guard
\* and is about to remove it, while another thread is inside get_lock for
\* the same page id
C14_Witness ==
    \E t, u \in Threads :
        /\ pc[t] = "gc_remove" /\ kv[t] = lock[t] /\ locks[kv[t]].swaps = 1
        /\ pc[u] \in {"gl_fetch_update", "gl_insert"} /\ id[u] = id[t]

\* C15: the refcount of every PageLock, in the map or being torn down, is
\* non-negative or exactly isize::MIN.
C15_CountNonNegativeOrSentinel ==
    \A a \in Addrs : locks[a].refcount >= 0 \/ locks[a].refcount = ISIZE_MIN

\* C16: the drop of a guard decrements a refcount once, and only that of the
\* PageLock its own acquisition inserted or incremented: every decrement
\* of try_gc is made on the entry whose RwLock the guard has locked, also
\* when compute runs the closure again.
C16_DropDecrementsOwnEntry ==
    [][\A t \in Threads :
          (pc[t] = "gc_fetch_update" /\ pc'[t] # "gc_fetch_update") => kv[t] = lock[t]]_vars


\* the PageLock the map has for each page id is left exactly as it was
UntouchedEntries ==
    \A p \in PageIds :
        /\ (map[p] = 0) <=> (map'[p] = 0)
        /\ map[p] # 0 => locks'[map'[p]] = locks[map[p]]

\* C17: the refcount saturates instead of overflowing. An acquire that
\* finds the entry at isize::MAX leaves it there and returns the lock of
\* that entry; a release that finds it at isize::MAX leaves it there and
\* removes nothing; no acquire takes a non-negative count to a negative
\* one; no release subtracts from isize::MIN, where `count - 1` overflows;
\* and no release removes from the map an entry whose count is isize::MAX.
C17_RefcountSaturates ==
    /\ [][\A t \in Threads :
            /\ ~try_gc_overflow(t)
            /\ ~(try_gc_fetch_update(t) /\ locks[kv[t]].refcount = ISIZE_MIN)]_vars
    /\ [][\A p \in PageIds :
            (map[p] # 0 /\ locks[map[p]].refcount = ISIZE_MAX) => map'[p] # 0]_vars
    /\ [][\A t \in Threads :
            (get_lock_fetch_update(t) /\ locks[kv[t]].refcount = ISIZE_MAX) =>
                /\ pc'[t] = "gl_lock"
                /\ locks'[lock'[t]] = locks[kv[t]]
                /\ UntouchedEntries]_vars
    /\ [][\A t \in Threads :
            (try_gc_fetch_update(t) /\ locks[kv[t]].refcount = ISIZE_MAX) =>
                /\ pc'[t] = "gc_unlock"
                /\ UntouchedEntries]_vars
    /\ [][\A t \in Threads :
            (get_lock_fetch_update(t) /\ locks[kv[t]].refcount >= 0) =>
                /\ pc'[t] = "gl_lock"
                /\ locks'[lock'[t]].refcount >= locks[kv[t]].refcount]_vars

\* C18: under fair scheduling, with every thread holding at most one guard
\* and dropping each guard it gets, every call of read_page or write_page
\* eventually returns a guard.
C18_EveryCallReturnsAGuard ==
    \A t \in Threads :
        (pc[t] \in {"gl_fetch_update", "gl_insert", "gl_lock"}) ~> (pc[t] = "held")


\* the PageLocks whose RwLock is locked
LockedEntries == {a \in Addrs : locks[a].readers # {} \/ locks[a].writer # 0}

\* no page has an entry in the map and no RwLock is locked
NothingHeld == (\A p \in PageIds : map[p] = 0) /\ LockedEntries = {}

\* C19: find releases its page guard on every exit path. It holds at most
\* one guard at a time, a read guard; the guard of an iteration has been
\* dropped, and its entry removed, when the next page is acquired; and when
\* find has returned, also with an I/O or decode error passed on by `?`, the
\* map has no entry and no lock is held.
C19_FindReleasesItsGuard ==
    /\ Cardinality(LockedEntries) <= 1
    /\ \A a \in LockedEntries : locks[a].readers = {FindThread} /\ locks[a].writer = 0
    /\ find_pc \in {"call", "loop", "returned"} => NothingHeld /\ pc[FindThread] = "idle"

\* find has returned the decode error of a page it read under a guard
C19_Witness ==
    /\ find_pc = "returned"
    /\ header # Pending
    /\ ~header.ok
    /\ find_result = [ok |-> FALSE, err |-> header.err]
    /\ NothingHeld


\* the places, among the first ten bytes of buffer, of the bytes without the
\* continuation bit
Terminators(buffer) == {j \in 1 .. Min(Len(buffer), 10) : buffer[j] < 128}

\* the 7-bit groups of the first n bytes, least significant group first
Groups(buffer, n) ==
    {k \in 0 .. (U64Bits - 1) :
        \E j \in 1 .. n : k - 7 * (j - 1) \in (BitsOf(buffer[j]) \ {7})}

\* C20: decode_varint returns None when the buffer ends before a byte
\* without the continuation bit, and when its first 10 bytes all have the
\* bit; otherwise it returns the value and the index of the first byte
\* without the bit plus one; and it reads nothing after the 10th byte.
C20_MalformedVarintIsNone ==
    decoded # Pending =>
        LET buffer == SubSeq(encoded.buf, 1, encoded.len) \o trail
            first == CHOOSE j \in Terminators(buffer) :
                        \A k \in Terminators(buffer) : j <= k
        IN  /\ Terminators(buffer) = {} => ~decoded.some
            /\ Terminators(buffer) # {} =>
                  decoded = [some |-> TRUE, value |-> Groups(buffer, first), len |-> first]
            /\ decoded = decode_varint(SubSeq(buffer, 1, Min(Len(buffer), 10)))

\* ten bytes with the continuation bit and then one without it: None
C20_Witness ==
    /\ decoded # Pending
    /\ ~decoded.some
    /\ Len(encoded.buf) = 11
    /\ \A j \in 1 .. 10 : encoded.buf[j] = 128
    /\ encoded.buf[11] = 127

====
